---- MODULE Spec2Model ----
(***************************************************************************)
(* Model of the Flask relay in src/app.py: the Discord-facing endpoints    *)
(* (/oauth/exchange, /oauth/me, /oauth/guilds, /bot/guilds_status) and the *)
(* in-memory stats store (/stats, /update_stats).                          *)
(*                                                                         *)
(* Python strings are TLA+ strings; an optional value (None or a string)   *)
(* is a record [set, val]; a dict is a function from its keys.             *)
(***************************************************************************)
EXTENDS Integers, Sequences, FiniteSets, TLC

VARIABLES
    client_id,  \* /oauth/exchange: os.environ.get('DISCORD_CLIENT_ID')
    client_secret, \* /oauth/exchange: os.environ.get('DISCORD_CLIENT_SECRET')
    bot_token,  \* /bot/guilds_status: os.environ.get('DISCORD_BOT_TOKEN')
    bot_id,     \* /bot/guilds_status: os.environ.get('DISCORD_BOT_ID')
    pc,         \* relay handler position: "idle", "loop" (guilds_status), "done"
    endpoint,   \* the route being served
    code,       \* /oauth/exchange: request.json 'code'
    redirect_uri, \* /oauth/exchange: request.json 'redirect_uri'
    auth,       \* /oauth/me, /oauth/guilds: the Authorization header
    up,         \* the upstream outcome of the single outbound call
    calls,      \* number of outbound calls made by the current request
    sent,       \* the bearer token put on the outbound call
    guild_ids,  \* /bot/guilds_status: request.json 'guild_ids'
    idx,        \* /bot/guilds_status: position of the for loop
    present,    \* /bot/guilds_status: list
    missing,    \* /bot/guilds_status: list
    errors,     \* /bot/guilds_status: dict gid -> message
    lookups,    \* the upstream's log of member lookups, in order
    resp,       \* the response of the current request
    bot_stats,  \* the module-level stats dict
    ticks,      \* wall clock, in steps of TickSeconds since start_time
    lastOp,     \* sequential stats history: "update", "get", or "update_get" right
                \* after a stats() that directly followed an update_stats()
    pre,        \* bot_stats before the most recent update_stats
    patch,      \* the body of the most recent update_stats
    out,        \* the mapping returned by the most recent stats operation
    tpc,        \* concurrent handlers: position of each
    tjob,       \* concurrent handlers: what each was asked to do
    tuptime,    \* concurrent handlers: stats() local f"{hours}h {minutes}m"
    tout        \* concurrent handlers: the mapping each serialised

relayVars == <<client_id, client_secret, bot_token, bot_id, pc, endpoint, code, redirect_uri, auth, up, calls, sent,
               guild_ids, idx, present, missing, errors, lookups, resp>>
statsVars == <<bot_stats, ticks, lastOp, pre, patch, out>>
concVars  == <<tpc, tjob, tuptime, tout>>
vars == <<relayVars, statsVars, concVars>>

----------------------------------------------------------------------------
(* Bounds of the model *)

MaxGuilds == 3
MaxTicks == 3
NumThreads == 2

----------------------------------------------------------------------------
(* Python values *)

Absent == [set |-> FALSE, val |-> ""]
Some(s) == [set |-> TRUE, val |-> s]

\* bool(x) of None or a str
Truthy(o) == o.set /\ o.val # ""

Range(s) == {s[i] : i \in 1..Len(s)}

Min(a, b) == IF a <= b THEN a ELSE b

CharAt(s, i) == SubSeq(s, i, i)

UpperLetters == "ABCDEFGHIJKLMNOPQRSTUVWXYZ"
LowerLetters == "abcdefghijklmnopqrstuvwxyz"

LowerChar(c) ==
    IF \E i \in 1..26 : CharAt(UpperLetters, i) = c
    THEN CharAt(LowerLetters, CHOOSE i \in 1..26 : CharAt(UpperLetters, i) = c)
    ELSE c

RECURSIVE LowerFrom(_, _)
LowerFrom(s, i) ==
    IF i > Len(s) THEN "" ELSE LowerChar(CharAt(s, i)) \o LowerFrom(s, i + 1)

\* str.lower(), mutated: leaves the string as it is
LowerIdentity(s) == s

\* str.lower()
Lower(s) == LowerFrom(s, 1)

\* str.startswith(p)
StartsWith(s, p) == Len(s) >= Len(p) /\ SubSeq(s, 1, Len(p)) = p

IsSpace(c) == c \in {" ", "\t"}

\* first position >= i of s holding a character whose whiteness is w, or Len(s)+1
RECURSIVE Scan(_, _, _)
Scan(s, i, w) ==
    IF i > Len(s) \/ IsSpace(CharAt(s, i)) = w THEN i ELSE Scan(s, i + 1, w)

\* str.split(None, 1): at most one split on a run of whitespace
SplitNone1(s) ==
    LET a == Scan(s, 1, FALSE)
        b == Scan(s, a, TRUE)
        c == Scan(s, b, FALSE)
    IN  IF a > Len(s) THEN <<>>
        ELSE IF c > Len(s) THEN <<SubSeq(s, a, b - 1)>>
        ELSE <<SubSeq(s, a, b - 1), SubSeq(s, c, Len(s))>>

\* s[:n]
Take(s, n) == SubSeq(s, 1, Min(n, Len(s)))

\* sub in s
Contains(s, sub) ==
    \E i \in 1..(Len(s) - Len(sub) + 1) : SubSeq(s, i, i + Len(sub) - 1) = sub

EmptyDict == <<>>

\* d[k] = v
SetItem(d, k, v) ==
    [x \in DOMAIN d \cup {k} |-> IF x = k THEN v ELSE d[x]]

\* d.get(k)
Get(d, k) == IF k \in DOMAIN d THEN Some(d[k]) ELSE Absent

----------------------------------------------------------------------------
(* Responses *)

Response(status, shape, error, details, data) ==
    [status |-> status, shape |-> shape, error |-> error,
     details |-> details, data |-> data]

NoResponse == Response(0, "none", "", "", EmptyDict)

\* jsonify({'error': ..., ...}), status
Envelope(status, error, details, data) ==
    Response(status, "envelope", error, details, data)

\* jsonify(parsed), 200
Payload(data) == Response(200, "payload", "", "", data)

\* an exception leaves the view function: Flask answers 500
Unhandled(exc) == Response(500, "unhandled", "", exc, EmptyDict)

----------------------------------------------------------------------------
(* The upstream (Discord) *)

NoOutcome ==
    [kind |-> "none", exc |-> "", status |-> 0, json |-> "invalid",
     obj |-> EmptyDict, text |-> ""]

Raised(exc, msg) ==
    [kind |-> "exception", exc |-> exc, status |-> 0, json |-> "invalid",
     obj |-> EmptyDict, text |-> msg]

Replied(status, json, obj, text) ==
    [kind |-> "response", exc |-> "", status |-> status, json |-> json,
     obj |-> obj, text |-> text]

Transport == {Raised("Timeout", "timed out"), Raised("ConnectionError", "refused")}

\* JSON objects over the two error keys, with empty and non-empty values
ErrorKeys == {"error", "error_description"}
ErrorValues == {"", "invalid_grant", "Invalid code"}
JsonObjects ==
    UNION {[D -> ErrorValues] : D \in SUBSET ErrorKeys}

UpStatuses == {200, 400, 401}

\* a reply is unparseable, a JSON value that is no object, or a JSON object
Replies ==
    {Replied(s, "invalid", EmptyDict, "<html>") : s \in UpStatuses}
    \cup {Replied(s, "array", EmptyDict, "[]") : s \in UpStatuses}
    \cup {Replied(s, "object", o, "{...}") : s \in UpStatuses, o \in JsonObjects}

UpstreamOutcomes == Transport \cup Replies

LookupOutcomes ==
    Transport
    \cup {Replied(200, "object", EmptyDict, "{}"),
          Replied(404, "object", EmptyDict, "Unknown Guild"),
          Replied(500, "invalid", EmptyDict, "oops")}

----------------------------------------------------------------------------
(* POST /oauth/exchange *)

\* `if not code or not redirect_uri`, mutated: only None counts as missing
MissingArgsNoneOnly(c, r) == ~c.set \/ ~r.set

\* `if not code or not redirect_uri`
MissingArgs(c, r) == ~Truthy(c) \/ ~Truthy(r)

\* `if not client_id or not client_secret`
MissingCreds(id, secret) == ~Truthy(id) \/ ~Truthy(secret)

\* data.get('error_description') or data.get('error') or 'Unknown error'
ErrorText(d) ==
    IF Truthy(Get(d, "error_description")) THEN d["error_description"]
    ELSE IF Truthy(Get(d, "error")) THEN d["error"]
    ELSE "Unknown error"

\* what the handler answers once the token endpoint was called with outcome u
ExchangeResult(u) ==
    IF u.kind = "exception"
    THEN Envelope(502, "failed to contact Discord token endpoint", u.text, EmptyDict)
    ELSE IF u.json = "invalid"
    THEN Envelope(u.status, "Discord token endpoint returned invalid response",
                  u.text, EmptyDict)
    ELSE IF u.json = "array"
    THEN \* 'error' in [] is False; [].get raises AttributeError
         IF u.status # 200 THEN Unhandled("AttributeError")
         ELSE Response(200, "payload", "", u.text, EmptyDict)
    ELSE IF u.status # 200 \/ "error" \in DOMAIN u.obj
    THEN Envelope(u.status, ErrorText(u.obj), "", u.obj)
    ELSE Payload(u.obj)

OauthExchange(c, r, id, secret, u) ==
    IF MissingArgs(c, r)
    THEN [resp |-> Envelope(400, "missing code or redirect_uri", "", EmptyDict),
          calls |-> 0, up |-> NoOutcome]
    ELSE IF MissingCreds(id, secret)
    THEN [resp |-> Envelope(500, "server missing OAuth client credentials", "", EmptyDict),
          calls |-> 0, up |-> NoOutcome]
    ELSE [resp |-> ExchangeResult(u), calls |-> 1, up |-> u]

----------------------------------------------------------------------------
(* GET /oauth/me and GET /oauth/guilds *)

MissingHeader == "missing Authorization: Bearer <token> header"

\* `if not auth or not auth.lower().startswith('bearer ')`
AuthRejected(a) == ~Truthy(a) \/ ~StartsWith(Lower(a.val), "bearer ")

DetailsLimit == 200

\* /oauth/me after the call to /users/@me with outcome u
MeResult(u) ==
    IF u.kind = "exception"
    THEN Envelope(502, "failed to contact Discord API", u.text, EmptyDict)
    ELSE IF u.json = "invalid"
    THEN Envelope(502, "invalid response from Discord", Take(u.text, DetailsLimit), EmptyDict)
    ELSE IF u.json = "array"
    THEN \* response_data.get raises AttributeError, which is no ValueError
         Unhandled("AttributeError")
    ELSE Payload(u.obj)

\* /oauth/guilds after the call to /users/@me/guilds with outcome u
GuildsResult(u) ==
    IF u.kind = "exception"
    THEN Envelope(502, "failed to contact Discord API", u.text, EmptyDict)
    ELSE Response(u.status, "raw", "", u.text, u.obj)

\* the part the two handlers share: header check, token, one call
Proxy(a, u, result) ==
    IF AuthRejected(a)
    THEN [resp |-> Envelope(401, MissingHeader, "", EmptyDict),
          calls |-> 0, sent |-> "", up |-> NoOutcome]
    ELSE LET parts == SplitNone1(a.val)
         IN  IF Len(parts) < 2
             THEN \* auth.split(None, 1)[1] raises IndexError
                  [resp |-> Unhandled("IndexError"),
                   calls |-> 0, sent |-> "", up |-> NoOutcome]
             ELSE [resp |-> result, calls |-> 1, sent |-> parts[2], up |-> u]

OauthMe(a, u) == Proxy(a, u, MeResult(u))

OauthGuilds(a, u) == Proxy(a, u, GuildsResult(u))

----------------------------------------------------------------------------
(* POST /bot/guilds_status *)

BodyLimit == 300

\* `except Exception`, mutated: `except requests.Timeout`
CatchesTimeoutOnly(exc) == exc = "Timeout"

\* `except Exception` catches whatever requests.get raises
Catches(exc) == exc \in {"Timeout", "ConnectionError"}

\* the if / elif / else on r.status_code, mutated: 404 falls to the else
ClassifyNo404(o) == IF o.status = 200 THEN "present" ELSE "errors"

\* the if / elif / else on r.status_code
Classify(o) ==
    IF o.status = 200 THEN "present"
    ELSE IF o.status = 404 THEN "missing"
    ELSE "errors"

\* f'status={r.status_code} body={r.text[:300]}', or str(e)
ErrorMsg(o) ==
    IF o.kind = "exception" THEN o.text
    ELSE "status=" \o ToString(o.status) \o " body=" \o Take(o.text, BodyLimit)

Bucket(o) == IF o.kind = "exception" THEN "errors" ELSE Classify(o)

----------------------------------------------------------------------------
(* Inputs of the relay *)

OptStrings == {Absent, Some(""), Some("x")}

AuthHeaders ==
    {Absent, Some(""), Some("Bearer tok"), Some("bearer tok"), Some("BEARER tok"),
     Some("bEaReR tok"), Some("Bearer  tok "), Some("Bearer "), Some("bearer   "),
     Some("Bearer"), Some("Bearertok"), Some("Bearer\ttok"), Some(" Bearer tok"),
     Some("Basic tok"), Some("tok")}

GuildIds == {"A", "B", "C"}

GuildIdSeqs == UNION {[1..n -> GuildIds] : n \in 0..MaxGuilds}

----------------------------------------------------------------------------
(* The state after construction *)

RelayIdle ==
    /\ client_id = Absent
    /\ client_secret = Absent
    /\ bot_token = Absent
    /\ bot_id = Absent
    /\ pc = "idle"
    /\ endpoint = "none"
    /\ code = Absent
    /\ redirect_uri = Absent
    /\ auth = Absent
    /\ up = NoOutcome
    /\ calls = 0
    /\ sent = ""
    /\ guild_ids = <<>>
    /\ idx = 0
    /\ present = <<>>
    /\ missing = <<>>
    /\ errors = EmptyDict
    /\ lookups = <<>>
    /\ resp = NoResponse

InitialStats ==
    [k \in {"bot_name", "servers", "users", "uptime"} |->
        CASE k = "bot_name" -> "Whiteout Survival"
          [] k = "servers" -> 0
          [] k = "users" -> 0
          [] k = "uptime" -> "Starting..."]

Threads == 1..NumThreads

StatsIdle ==
    /\ bot_stats = InitialStats
    /\ ticks = 0
    /\ lastOp = "none"
    /\ pre = InitialStats
    /\ patch = EmptyDict
    /\ out = EmptyDict
    /\ tpc = [t \in Threads |-> "idle"]
    /\ tjob = [t \in Threads |-> EmptyDict]
    /\ tuptime = [t \in Threads |-> ""]
    /\ tout = [t \in Threads |-> EmptyDict]

Init == RelayIdle /\ StatsIdle

----------------------------------------------------------------------------
(* Relay handlers, one request at a time *)

oauth_exchange ==
    /\ pc = "idle"
    /\ \E c \in OptStrings, r \in OptStrings, id \in OptStrings,
          secret \in OptStrings, u \in UpstreamOutcomes :
         LET res == OauthExchange(c, r, id, secret, u)
         IN  /\ code' = c
             /\ redirect_uri' = r
             /\ client_id' = id
             /\ client_secret' = secret
             /\ resp' = res.resp
             /\ calls' = res.calls
             /\ up' = res.up
    /\ endpoint' = "exchange"
    /\ pc' = "done"
    /\ UNCHANGED <<bot_token, bot_id, auth, sent, guild_ids, idx, present, missing,
                   errors, lookups>>
    /\ UNCHANGED <<statsVars, concVars>>

oauth_me ==
    /\ pc = "idle"
    /\ \E a \in AuthHeaders, u \in UpstreamOutcomes :
         LET res == OauthMe(a, u)
         IN  /\ auth' = a
             /\ resp' = res.resp
             /\ calls' = res.calls
             /\ sent' = res.sent
             /\ up' = res.up
    /\ endpoint' = "me"
    /\ pc' = "done"
    /\ UNCHANGED <<client_id, client_secret, bot_token, bot_id, code, redirect_uri,
                   guild_ids, idx, present, missing, errors, lookups>>
    /\ UNCHANGED <<statsVars, concVars>>

oauth_guilds ==
    /\ pc = "idle"
    /\ \E a \in AuthHeaders, u \in UpstreamOutcomes :
         LET res == OauthGuilds(a, u)
         IN  /\ auth' = a
             /\ resp' = res.resp
             /\ calls' = res.calls
             /\ sent' = res.sent
             /\ up' = res.up
    /\ endpoint' = "guilds"
    /\ pc' = "done"
    /\ UNCHANGED <<client_id, client_secret, bot_token, bot_id, code, redirect_uri,
                   guild_ids, idx, present, missing, errors, lookups>>
    /\ UNCHANGED <<statsVars, concVars>>

\* jsonify({'present': present, 'missing': missing, 'errors': errors})
PresenceResult == Response(200, "presence", "", "", EmptyDict)

\* lines 173-193: the credentials checks, then the loop starts
bot_guilds_status ==
    /\ pc = "idle"
    /\ endpoint' = "guilds_status"
    /\ \E g \in GuildIdSeqs, token \in OptStrings, id \in OptStrings :
         /\ guild_ids' = g
         /\ bot_token' = token
         /\ bot_id' = id
         /\ IF ~Truthy(token)
            THEN /\ resp' = Envelope(500, "DISCORD_BOT_TOKEN not configured", "", EmptyDict)
                 /\ pc' = "done"
                 /\ idx' = 0
            ELSE IF ~Truthy(id)
            THEN /\ resp' = Envelope(500, "DISCORD_BOT_ID not configured", "", EmptyDict)
                 /\ pc' = "done"
                 /\ idx' = 0
            ELSE IF g = <<>>
            THEN /\ resp' = PresenceResult
                 /\ pc' = "done"
                 /\ idx' = 1
            ELSE /\ resp' = NoResponse
                 /\ pc' = "loop"
                 /\ idx' = 1
    /\ UNCHANGED <<client_id, client_secret, code, redirect_uri, auth, up, calls, sent,
                   present, missing, errors, lookups>>
    /\ UNCHANGED <<statsVars, concVars>>

\* lines 196-218: one iteration of `for gid in guild_ids`, and the return after the last
guild_lookup ==
    /\ pc = "loop"
    /\ idx <= Len(guild_ids)
    /\ \E o \in LookupOutcomes :
         LET gid == guild_ids[idx]
             escapes == o.kind = "exception" /\ ~Catches(o.exc)
             b == Bucket(o)
         IN  /\ lookups' = Append(lookups, [gid |-> gid, outcome |-> o])
             /\ calls' = calls + 1
             /\ up' = o
             /\ present' = IF ~escapes /\ b = "present" THEN Append(present, gid) ELSE present
             /\ missing' = IF ~escapes /\ b = "missing" THEN Append(missing, gid) ELSE missing
             /\ errors' = IF ~escapes /\ b = "errors"
                          THEN SetItem(errors, gid, ErrorMsg(o)) ELSE errors
             /\ IF escapes
                THEN /\ resp' = Unhandled(o.exc)
                     /\ pc' = "done"
                     /\ idx' = idx
                ELSE IF idx = Len(guild_ids)
                THEN /\ resp' = PresenceResult
                     /\ pc' = "done"
                     /\ idx' = idx + 1
                ELSE /\ resp' = NoResponse
                     /\ pc' = "loop"
                     /\ idx' = idx + 1
    /\ UNCHANGED <<client_id, client_secret, bot_token, bot_id, endpoint, code,
                   redirect_uri, auth, sent, guild_ids>>
    /\ UNCHANGED <<statsVars, concVars>>

\* the response is sent; the next request finds fresh locals
next_request ==
    /\ pc = "done"
    /\ client_id' = Absent
    /\ client_secret' = Absent
    /\ bot_token' = Absent
    /\ bot_id' = Absent
    /\ pc' = "idle"
    /\ endpoint' = "none"
    /\ code' = Absent
    /\ redirect_uri' = Absent
    /\ auth' = Absent
    /\ up' = NoOutcome
    /\ calls' = 0
    /\ sent' = ""
    /\ guild_ids' = <<>>
    /\ idx' = 0
    /\ present' = <<>>
    /\ missing' = <<>>
    /\ errors' = EmptyDict
    /\ lookups' = <<>>
    /\ resp' = NoResponse
    /\ UNCHANGED <<statsVars, concVars>>

NextRelay ==
    \/ oauth_exchange
    \/ oauth_me
    \/ oauth_guilds
    \/ bot_guilds_status
    \/ guild_lookup
    \/ next_request

SpecRelay == Init /\ [][NextRelay]_vars

----------------------------------------------------------------------------
(* The stats store *)

Patches ==
    {EmptyDict,
     "servers" :> 5,
     ("servers" :> 5) @@ ("users" :> 7),
     ("servers" :> 6) @@ ("users" :> 8),
     ("users" :> 7) @@ ("extra" :> "v"),
     "uptime" :> "9h 9m"}

\* dict.update(other), mutated: stops after the first key
RECURSIVE UpdateKeys(_, _, _)
UpdateKeys(d, other, ks) ==
    IF ks = {} THEN d
    ELSE LET k == CHOOSE x \in ks : TRUE
         IN  UpdateKeys(SetItem(d, k, other[k]), other, ks \ {k})

DictUpdateFirstKey(d, other) ==
    IF DOMAIN other = {} THEN d
    ELSE LET k == CHOOSE x \in DOMAIN other : TRUE IN SetItem(d, k, other[k])

\* dict.update(other), mutated: the dict is replaced by other
DictReplace(d, other) == other

\* dict.update(other): every key of other is set in d
DictUpdate(d, other) == UpdateKeys(d, other, DOMAIN other)

\* granularity of the model's clock, in seconds
TickSeconds == 30 * 61

\* (datetime.now() - start_time).total_seconds()
Elapsed == ticks * TickSeconds

\* f"{hours}h {minutes}m"
Uptime(seconds) ==
    LET hours == seconds \div 3600
        minutes == (seconds % 3600) \div 60
    IN  ToString(hours) \o "h " \o ToString(minutes) \o "m"

\* time passes
tick ==
    /\ ticks < MaxTicks
    /\ ticks' = ticks + 1
    /\ lastOp' = IF lastOp = "update_get" THEN "get" ELSE lastOp
    /\ UNCHANGED <<bot_stats, pre, patch, out>>
    /\ UNCHANGED <<relayVars, concVars>>

(* Sequential use: one handler runs to its end before the next starts *)

\* POST /update_stats
update_stats ==
    /\ \E data \in Patches :
         /\ bot_stats' = DictUpdate(bot_stats, data)
         /\ patch' = data
    /\ pre' = bot_stats
    /\ out' = bot_stats'
    /\ lastOp' = "update"
    /\ UNCHANGED ticks
    /\ UNCHANGED <<relayVars, concVars>>

\* GET /stats
stats ==
    /\ bot_stats' = SetItem(bot_stats, "uptime", Uptime(Elapsed))
    /\ out' = bot_stats'
    /\ lastOp' = IF lastOp = "update" THEN "update_get" ELSE "get"
    /\ UNCHANGED <<ticks, pre, patch>>
    /\ UNCHANGED <<relayVars, concVars>>

NextStats == update_stats \/ stats \/ tick

SpecStats == Init /\ [][NextStats]_vars

(* Concurrent use: each thread serves one request, statement by statement *)

\* line 223: data = request.json or {}
recv_update(t) ==
    /\ tpc[t] = "idle"
    /\ \E data \in Patches : tjob' = [tjob EXCEPT ![t] = data]
    /\ tpc' = [tpc EXCEPT ![t] = "merge"]
    /\ UNCHANGED <<tuptime, tout, statsVars, relayVars>>

\* line 224: bot_stats.update(data)
merge(t) ==
    /\ tpc[t] = "merge"
    /\ bot_stats' = DictUpdate(bot_stats, tjob[t])
    /\ tpc' = [tpc EXCEPT ![t] = "reply"]
    /\ UNCHANGED <<tjob, tuptime, tout, ticks, lastOp, pre, patch, out, relayVars>>

\* lines 56-58: the uptime string is computed from the clock
recv_stats(t) ==
    /\ tpc[t] = "idle"
    /\ tuptime' = [tuptime EXCEPT ![t] = Uptime(Elapsed)]
    /\ tjob' = [tjob EXCEPT ![t] = "uptime" :> Uptime(Elapsed)]
    /\ tpc' = [tpc EXCEPT ![t] = "store"]
    /\ UNCHANGED <<tout, statsVars, relayVars>>

\* line 59: bot_stats["uptime"] = ...
store(t) ==
    /\ tpc[t] = "store"
    /\ bot_stats' = SetItem(bot_stats, "uptime", tuptime[t])
    /\ tpc' = [tpc EXCEPT ![t] = "reply"]
    /\ UNCHANGED <<tjob, tuptime, tout, ticks, lastOp, pre, patch, out, relayVars>>

\* lines 60 and 225: jsonify(bot_stats) serialises the dict as it is now
reply(t) ==
    /\ tpc[t] = "reply"
    /\ tout' = [tout EXCEPT ![t] = bot_stats]
    /\ tpc' = [tpc EXCEPT ![t] = "done"]
    /\ UNCHANGED <<tjob, tuptime, statsVars, relayVars>>

NextConc ==
    \/ \E t \in Threads : recv_update(t)
    \/ \E t \in Threads : merge(t)
    \/ \E t \in Threads : recv_stats(t)
    \/ \E t \in Threads : store(t)
    \/ \E t \in Threads : reply(t)
    \/ tick

SpecConc == Init /\ [][NextConc]_vars

----------------------------------------------------------------------------
(* Properties of /bot/guilds_status *)

GuildsStatusRan ==
    endpoint = "guilds_status" /\ pc = "done" /\ Truthy(bot_token) /\ Truthy(bot_id)

\* C1: when /bot/guilds_status ran with bot credentials, present, missing and
\* errors are pairwise disjoint and together hold exactly the input IDs.
C1_ExactlyOneCollection ==
    GuildsStatusRan =>
        LET P == Range(present)
            M == Range(missing)
            E == DOMAIN errors
        IN  /\ P \cap M = {}
            /\ P \cap E = {}
            /\ M \cap E = {}
            /\ P \cup M \cup E = Range(guild_ids)

Is200(l) == l.outcome.kind = "response" /\ l.outcome.status = 200
Is404(l) == l.outcome.kind = "response" /\ l.outcome.status = 404
IsOther(l) == ~Is200(l) /\ ~Is404(l)

GidsOf(log) == [i \in 1..Len(log) |-> log[i].gid]

\* the last lookup of g that ended neither 200 nor 404
LastOther(g) ==
    LET I == {i \in 1..Len(lookups) : lookups[i].gid = g /\ IsOther(lookups[i])}
    IN  lookups[CHOOSE i \in I : \A j \in I : j <= i].outcome

\* C2: each lookup alone decides where its ID goes: present holds the IDs of the
\* lookups answered 200, missing those answered 404, errors has a key for every
\* ID whose lookup ended otherwise, with a message that contains the status
\* code, or is the exception's message, of that ID's latest such lookup.
C2_ClassifiedByOwnLookup ==
    endpoint = "guilds_status" =>
        /\ present = GidsOf(SelectSeq(lookups, Is200))
        /\ missing = GidsOf(SelectSeq(lookups, Is404))
        /\ DOMAIN errors = Range(GidsOf(SelectSeq(lookups, IsOther)))
        /\ \A g \in DOMAIN errors :
             LET o == LastOther(g)
             IN  IF o.kind = "exception" THEN errors[g] = o.text
                 ELSE Contains(errors[g], ToString(o.status))

\* C2: the example of the specification, 200 / 404 / 500 for A / B / C
C2_Example ==
    /\ GuildsStatusRan
    /\ guild_ids = <<"A", "B", "C">>
    /\ Is200(lookups[1]) /\ Is404(lookups[2])
    /\ lookups[3].outcome.kind = "response" /\ lookups[3].outcome.status = 500
    /\ present = <<"A">>
    /\ missing = <<"B">>
    /\ DOMAIN errors = {"C"}
    /\ Contains(errors["C"], "500")

\* C3: a failed lookup never ends the batch: while the handler runs the loop
\* goes on to the next ID, and when it has run every ID of guild_ids was looked
\* up once, in order, every failed ID is a key of errors, and the answer is the
\* {present, missing, errors} result with status 200.
C3_FailureIsolation ==
    /\ (endpoint = "guilds_status" /\ pc = "loop") =>
          /\ idx <= Len(guild_ids)
          /\ Len(lookups) = idx - 1
          /\ resp = NoResponse
    /\ GuildsStatusRan =>
          /\ resp.status = 200
          /\ resp.shape = "presence"
          /\ GidsOf(lookups) = guild_ids
          /\ calls = Len(guild_ids)
          /\ \A i \in 1..Len(lookups) :
                IsOther(lookups[i]) => guild_ids[i] \in DOMAIN errors
          /\ Range(guild_ids) \subseteq Range(present) \cup Range(missing) \cup DOMAIN errors

\* C3: the transport fails for the second of three IDs only
C3_Isolated ==
    /\ GuildsStatusRan
    /\ Len(guild_ids) = 3
    /\ Is200(lookups[1])
    /\ lookups[2].outcome.kind = "exception"
    /\ Is404(lookups[3])
    /\ present = <<guild_ids[1]>>
    /\ missing = <<guild_ids[3]>>
    /\ DOMAIN errors = {guild_ids[2]}
    /\ resp.status = 200

----------------------------------------------------------------------------
(* Properties of /oauth/exchange *)

NonEmpty(o) == o.set /\ Len(o.val) > 0

ExchangeRan == endpoint = "exchange" /\ pc = "done"

\* C4: /oauth/exchange calls the token endpoint only when code, redirect_uri,
\* client id and client secret are all non-empty; a missing or empty code or
\* redirect_uri is answered 400, and otherwise an unset client id or secret is
\* answered 500, both without an outbound call.
C4_NoCallWithoutInputs ==
    ExchangeRan =>
        /\ calls > 0 =>
              /\ NonEmpty(code) /\ NonEmpty(redirect_uri)
              /\ NonEmpty(client_id) /\ NonEmpty(client_secret)
        /\ (~NonEmpty(code) \/ ~NonEmpty(redirect_uri)) =>
              resp.status = 400 /\ calls = 0
        /\ (/\ NonEmpty(code) /\ NonEmpty(redirect_uri)
            /\ (~NonEmpty(client_id) \/ ~NonEmpty(client_secret))) =>
              resp.status = 500 /\ calls = 0

\* C4: exchangeCode("", "uri") with credentials set is refused without a call
C4_EmptyCodeRefused ==
    /\ ExchangeRan
    /\ code = Some("")
    /\ NonEmpty(redirect_uri)
    /\ NonEmpty(client_id) /\ NonEmpty(client_secret)
    /\ resp.status = 400
    /\ calls = 0

\* the field k of a JSON object carries a text
HasText(obj, k) == k \in DOMAIN obj /\ Len(obj[k]) > 0

\* C5: for a reply with a parseable body, /oauth/exchange answers the parsed
\* payload with 200 exactly when the reply is 200 without an error field, and
\* otherwise an error envelope with the reply's status whose text is
\* error_description if the body has one, else error if it has one, else a
\* generic message.
C5_ExchangeMapping ==
    (ExchangeRan /\ up.kind = "response" /\ up.json # "invalid") =>
        IF up.status = 200 /\ "error" \notin DOMAIN up.obj
        THEN resp.status = 200 /\ resp.shape = "payload"
        ELSE /\ resp.shape = "envelope"
             /\ resp.status = up.status
             /\ resp.error =
                  IF HasText(up.obj, "error_description") THEN up.obj["error_description"]
                  ELSE IF HasText(up.obj, "error") THEN up.obj["error"]
                  ELSE "Unknown error"

----------------------------------------------------------------------------
(* Properties of /oauth/me and /oauth/guilds *)

ProxyRan == endpoint \in {"me", "guilds"} /\ pc = "done"

\* the header starts with "bearer " in some letter case
SchemeIsBearer(h) ==
    /\ Len(h) >= 7
    /\ \A i \in 1..7 : CharAt(h, i) \in {CharAt("bearer ", i), CharAt("BEARER ", i)}

\* C6: on /oauth/me and /oauth/guilds a header that is absent or does not start
\* with "Bearer " in some letter case is answered 401 without an outbound call,
\* and a header that does is never answered with that rejection.
C6_BearerSchemeCheck ==
    ProxyRan =>
        IF auth.set /\ SchemeIsBearer(auth.val)
        THEN resp.error # MissingHeader /\ (resp.status = 401 => calls = 1)
        ELSE resp.status = 401 /\ resp.error = MissingHeader /\ calls = 0

\* C6: a mixed-case scheme got through to Discord
C6_MixedCaseAccepted ==
    /\ ProxyRan
    /\ auth = Some("bEaReR tok")
    /\ calls = 1
    /\ sent = "tok"

StatusClass(r) == r.status \div 100

\* C7: for every upstream outcome /oauth/guilds answers as /oauth/me does: the
\* same status class and the same kind of body (error envelope or data), 502
\* on a transport failure and 502 on an unparseable body.
C7_SameErrorMapping ==
    (ProxyRan /\ calls = 1) =>
        LET m == OauthMe(auth, up).resp
            g == OauthGuilds(auth, up).resp
        IN  /\ resp \in {m, g}
            /\ StatusClass(m) = StatusClass(g)
            /\ (m.shape = "envelope") = (g.shape = "envelope")
            /\ up.kind = "exception" => m.status = 502 /\ g.status = 502
            /\ (up.kind = "response" /\ up.json = "invalid") =>
                  m.status = 502 /\ g.status = 502

\* C10: "Bearer " with an empty token either reaches Discord with an empty
\* token or is answered 401, and nothing else.
C10_EmptyTokenOutcome ==
    (ProxyRan /\ auth = Some("Bearer ")) =>
        \/ calls = 1 /\ sent = ""
        \/ resp.status = 401 /\ calls = 0

----------------------------------------------------------------------------
(* Properties of the stats store *)

\* C8 as claimed: after update(patch) then get(), every key of the patch has
\* the patch's value, every other earlier field but uptime is unchanged, and no
\* key is gone.
C8_RoundTripEveryKey ==
    lastOp = "update_get" =>
        /\ DOMAIN pre \subseteq DOMAIN out
        /\ \A k \in DOMAIN patch : k \in DOMAIN out /\ out[k] = patch[k]
        /\ \A k \in DOMAIN pre \ (DOMAIN patch \cup {"uptime"}) :
              k \in DOMAIN out /\ out[k] = pre[k]

\* C8 as amended: after update(patch) then get(), every key of the patch other
\* than uptime has the patch's value, uptime is the uptime recomputed by get(),
\* every other earlier field is unchanged, and no key is gone.
C8_RoundTrip ==
    lastOp = "update_get" =>
        /\ DOMAIN pre \subseteq DOMAIN out
        /\ \A k \in DOMAIN patch \ {"uptime"} : k \in DOMAIN out /\ out[k] = patch[k]
        /\ \A k \in DOMAIN pre \ (DOMAIN patch \cup {"uptime"}) :
              k \in DOMAIN out /\ out[k] = pre[k]
        /\ "uptime" \in DOMAIN out /\ out["uptime"] = Uptime(Elapsed)
        /\ out = bot_stats

\* C8: update({"servers": 5}) then get()
C8_ServersFive ==
    /\ lastOp = "update_get"
    /\ DOMAIN patch = {"servers"}
    /\ pre["servers"] = 6
    /\ pre["users"] = 8
    /\ out["servers"] = 5
    /\ out["users"] = 8
    /\ out["bot_name"] = "Whiteout Survival"

\* the threads whose write to bot_stats has happened
Written == {t \in Threads : tpc[t] \in {"reply", "done"}}

\* the orders in which the threads of S can be lined up
Orders(S) ==
    {o \in [1..Cardinality(S) -> S] : \A i, j \in 1..Cardinality(S) : o[i] = o[j] => i = j}

\* p laid over m
Overlay(m, p) ==
    [k \in DOMAIN m \cup DOMAIN p |-> IF k \in DOMAIN p THEN p[k] ELSE m[k]]

\* the threads of order o served one after the other, starting from m
RECURSIVE Serial(_, _)
Serial(m, o) ==
    IF o = <<>> THEN m ELSE Serial(Overlay(m, tjob[Head(o)]), Tail(o))

\* C9: under any interleaving of handlers the stored mapping is what the
\* writes made so far give in some serial order, and every response is what
\* some of the requests, the answered one among them, give in some serial order
\* (no patch shows in part).
C9_Serializable ==
    /\ \E o \in Orders(Written) : bot_stats = Serial(InitialStats, o)
    /\ \A t \in Threads :
          tpc[t] = "done" =>
              \E S \in SUBSET Written :
                  /\ t \in S
                  /\ \E o \in Orders(S) : tout[t] = Serial(InitialStats, o)

\* C9: two updates of the same two keys ran interleaved, and the first answer
\* shows the second's patch
C9_Interleaved ==
    /\ \A t \in Threads : tpc[t] = "done"
    /\ tjob[1] = ("servers" :> 5) @@ ("users" :> 7)
    /\ tjob[2] = ("servers" :> 6) @@ ("users" :> 8)
    /\ tout[1] = bot_stats
    /\ bot_stats["servers"] = 6

====
